---- MODULE Spec2Model ----
(***************************************************************************)
(* A model of gistapi.py: the Flask handler search() serving               *)
(* POST /api/v1/search, its helper gists_for_user(), and the remote Gist   *)
(* service the two of them call through requests.get.                      *)
(*                                                                         *)
(* One request is followed from its arrival to its response.  The handler  *)
(* blocks in requests.get twice: on the listing call and on each raw       *)
(* content call.  Every action below is the code that runs between two     *)
(* such blocking points; what the remote service answers (or that it       *)
(* answers at all) is the environment's choice.                            *)
(*                                                                         *)
(* Strings that the code looks into (pattern, raw text) are sequences of   *)
(* one-character strings.  A JSON field of the request body is a record    *)
(* [present, val]: present = FALSE is what dict.get() reports as None.     *)
(***************************************************************************)
EXTENDS Integers, Sequences, FiniteSets, TLC

\* ------------------------------------------------------------------ bounds
\* Longest listing the remote service returns.
MaxGists == 2
\* Most file entries in one gist's "files" mapping.
MaxFiles == 2

\* ------------------------------------------------------------ input domains
Absent == [present |-> FALSE, val |-> <<>>]
Given(v) == [present |-> TRUE, val |-> v]

\* "username" values of the request body: missing, "", or a name.
Usernames == {Absent, Given(<<>>), Given(<<"u">>)}

\* "pattern" values: missing, "", and regular expressions over the subset
\* {literal a, literal b, '.', '('}.  "(" alone is an unterminated group.
Patterns ==
    {Absent, Given(<<>>), Given(<<"a">>), Given(<<"a", "b">>),
     Given(<<".", "b">>), Given(<<"(">>)}

GistIds == {"g1", "g2"}
FileNames == {"f1", "f2"}

\* Texts a raw-content response may carry.
Texts == {<<"b">>, <<"a", "b">>, <<"b", "a">>}

Range(s) == {s[k] : k \in 1..Len(s)}

SeqsUpTo(S, n) == UNION {[1..k -> S] : k \in 0..n}

\* The keys of a JSON object are distinct; Python's dict keeps their order.
FileKeySeqs ==
    {s \in SeqsUpTo(FileNames, MaxFiles) : Cardinality(Range(s)) = Len(s)}

RawUrl(id, name) == <<"https://gist.githubusercontent.com", id, "raw", name>>

\* One element of the listing: {"id": ..., "files": {name: {"raw_url": ...}}}
GistOf(id, names) ==
    [id |-> id,
     files |-> [k \in 1..Len(names) |->
                   [name |-> names[k], raw_url |-> RawUrl(id, names[k])]]]

GistValues == {GistOf(id, names) : id \in GistIds, names \in FileKeySeqs}

Listings == SeqsUpTo(GistValues, MaxGists)

\* What response.json() has to parse.
ArrayBody(l) == [kind |-> "array", items |-> l, keys |-> <<>>]
ObjectBody(ks) == [kind |-> "object", items |-> <<>>, keys |-> ks]
MalformedBody == [kind |-> "malformed", items |-> <<>>, keys |-> <<>>]
NoBody == [kind |-> "none", items |-> <<>>, keys |-> <<>>]

ErrorBodies ==
    {ObjectBody(<<"message", "documentation_url">>), ObjectBody(<<>>),
     ArrayBody(<<>>), MalformedBody}

ListingResponses ==
    {[status |-> 200, body |-> ArrayBody(l)] : l \in Listings}
    \cup {[status |-> s, body |-> b] : s \in {200, 404}, b \in ErrorBodies}

FetchResponses ==
    {[status |-> 200, text |-> t] : t \in Texts}
    \cup {[status |-> 404, text |-> <<"b", "a">>]}

\* ------------------------------------------------------------------- state
VARIABLES
    pc,         \* "idle", "listing", "fetching", "done"
    post_data,  \* request.get_json()
    gists,      \* what gists_for_user returned
    i,          \* position of the for loop in gists (0 before the loop)
    matches,    \* the list matches
    calls,      \* every requests.get issued so far, with its outcome
    response    \* what the handler returned, or the exception that left it

vars == <<pc, post_data, gists, i, matches, calls, response>>

NoResult == [status |-> "", username |-> <<>>, pattern |-> <<>>, matches |-> <<>>]

NoResponse ==
    [code |-> 0, error |-> "none", invalid_arguments |-> <<>>, result |-> NoResult]

\* ------------------------------------------------------- pure functions
\* line 67 / line 70: post_data.get(k) is None or post_data.get(k) == ""
invalid_only_none(field) == ~field.present

invalid(field) == ~field.present \/ field.val = <<>>

InvalidEntry(name) == [field |-> name, reason |-> "Invalid data or data not provided"]

\* lines 66-71
invalid_arguments_of(pd) ==
    (IF invalid(pd.username) THEN <<InvalidEntry("username")>> ELSE <<>>)
    \o (IF invalid(pd.pattern) THEN <<InvalidEntry("pattern")>> ELSE <<>>)

\* line 40
gists_url(username) == <<"https://api.github.com/users", username, "gists">>

\* line 93
match_url(username, gist_id) == <<"https://gist.github.com", username, gist_id>>

\* re.compile raises re.error on an unterminated group.
re_error(pattern) == \E k \in 1..Len(pattern) : pattern[k] = "("

\* The compiled pattern matches the text starting at position s.
MatchAt(pattern, text, s) ==
    /\ s >= 1
    /\ s + Len(pattern) - 1 <= Len(text)
    /\ \A k \in 1..Len(pattern) : pattern[k] = "." \/ pattern[k] = text[s + k - 1]

RECURSIVE FindFrom(_, _, _)
FindFrom(pattern, text, s) ==
    IF s + Len(pattern) - 1 > Len(text) THEN <<>>
    ELSE IF MatchAt(pattern, text, s)
         THEN <<SubSeq(text, s, s + Len(pattern) - 1)>>
              \o FindFrom(pattern, text, s + Len(pattern))
         ELSE FindFrom(pattern, text, s + 1)

re_match_only(pattern, text) ==
    IF MatchAt(pattern, text, 1) THEN <<SubSeq(text, 1, Len(pattern))>> ELSE <<>>

\* line 91: the non-overlapping matches, left to right
re_findall(pattern, text) == FindFrom(pattern, text, 1)

prepend_match(m, url) == <<url>> \o m

\* line 94
append_match(m, url) == Append(m, url)

build_result_error_when_empty(username, pattern, m) ==
    [status |-> IF m = <<>> THEN "error" ELSE "success",
     username |-> username, pattern |-> pattern, matches |-> m]

\* lines 100-103
build_result(username, pattern, m) ==
    [status |-> "success", username |-> username, pattern |-> pattern, matches |-> m]

\* What `for gist in gists` iterates over: the elements of a list, the keys
\* of a dict.
IterLen(g) == IF g.kind = "array" THEN Len(g.items) ELSE Len(g.keys)

ListCall(username) ==
    [kind |-> "list", url |-> gists_url(username), pos |-> 0,
     state |-> "pending", status |-> 0, text |-> <<>>]

FetchCall(url, k) ==
    [kind |-> "fetch", url |-> url, pos |-> k,
     state |-> "pending", status |-> 0, text |-> <<>>]

Settle(log, st, code, txt) ==
    [log EXCEPT ![Len(log)] = [@ EXCEPT !.state = st, !.status = code, !.text = txt]]

\* An exception no one catches leaves the handler: Flask answers 500.
Raise(name) == [NoResponse EXCEPT !.code = 500, !.error = name]

\* ---------------------------------------------------------------- actions
Init ==
    /\ pc = "idle"
    /\ post_data = [username |-> Absent, pattern |-> Absent]
    /\ gists = NoBody
    /\ i = 0
    /\ matches = <<>>
    /\ calls = <<>>
    /\ response = NoResponse

\* lines 64-80 and 40-42: the request arrives, is validated, and the handler
\* either answers 400 or issues the listing call.
SearchRequest(u, p) ==
    /\ pc = "idle"
    /\ LET pd == [username |-> u, pattern |-> p]
           invalid_arguments == invalid_arguments_of(pd)
       IN /\ post_data' = pd
          /\ IF invalid_arguments # <<>>
             THEN /\ response' = [NoResponse EXCEPT !.code = 400,
                                     !.invalid_arguments = invalid_arguments]
                  /\ pc' = "done"
                  /\ calls' = calls
             ELSE /\ calls' = Append(calls, ListCall(pd.username.val))
                  /\ pc' = "listing"
                  /\ response' = response
    /\ UNCHANGED <<gists, i, matches>>

\* lines 82-88 and 100-105: control is at the top of the for loop, about to
\* take element k of g, with matches m and call log `log`.
Continue(g, k, m, log) ==
    /\ gists' = g
    /\ i' = k
    /\ matches' = m
    /\ IF k > IterLen(g)
       THEN /\ response' = [NoResponse EXCEPT !.code = 200,
                               !.result = build_result(post_data.username.val,
                                                       post_data.pattern.val, m)]
            /\ calls' = log
            /\ pc' = "done"
       ELSE IF g.kind # "array"
       THEN \* a dict iterates over its keys: 'str' object has no attribute 'get'
            /\ response' = Raise("AttributeError")
            /\ calls' = log
            /\ pc' = "done"
       ELSE IF Len(g.items[k].files) = 0
       THEN \* list(gist.get("files").keys())[0]
            /\ response' = Raise("IndexError")
            /\ calls' = log
            /\ pc' = "done"
       ELSE /\ calls' = Append(log, FetchCall(g.items[k].files[1].raw_url, k))
            /\ response' = response
            /\ pc' = "fetching"

\* line 42: requests.get raises (connection refused, DNS failure, ...).
ListingRaises ==
    /\ pc = "listing"
    /\ calls' = Settle(calls, "raised", 0, <<>>)
    /\ response' = Raise("ConnectionError")
    /\ pc' = "done"
    /\ UNCHANGED <<post_data, gists, i, matches>>

\* lines 42-49 and 80-88: the listing response arrives.
ListingResponds(r) ==
    /\ pc = "listing"
    /\ post_data' = post_data
    /\ LET log == Settle(calls, "responded", r.status, <<>>)
       IN IF r.body.kind = "malformed"
          THEN /\ response' = Raise("JSONDecodeError")
               /\ calls' = log
               /\ pc' = "done"
               /\ UNCHANGED <<gists, i, matches>>
          ELSE Continue(r.body, 1, <<>>, log)

\* line 88: requests.get raises.
FetchRaises ==
    /\ pc = "fetching"
    /\ calls' = Settle(calls, "raised", 0, <<>>)
    /\ response' = Raise("ConnectionError")
    /\ pc' = "done"
    /\ UNCHANGED <<post_data, gists, i, matches>>

\* lines 88-94, then the loop goes on: the raw-content response arrives.
FetchResponds(r) ==
    /\ pc = "fetching"
    /\ post_data' = post_data
    /\ LET log == Settle(calls, "responded", r.status, r.text)
           raw_text == r.text
           pattern == post_data.pattern.val
       IN IF re_error(pattern)
          THEN /\ response' = Raise("re.error")
               /\ calls' = log
               /\ pc' = "done"
               /\ UNCHANGED <<gists, i, matches>>
          ELSE LET search_result == re_findall(pattern, raw_text)
                   m == IF search_result # <<>>
                        THEN append_match(matches,
                                 match_url(post_data.username.val, gists.items[i].id))
                        ELSE matches
               IN Continue(gists, i + 1, m, log)

Receive == \E u \in Usernames, p \in Patterns : SearchRequest(u, p)

Next ==
    \/ Receive
    \/ ListingRaises
    \/ \E r \in ListingResponses : ListingResponds(r)
    \/ FetchRaises
    \/ \E r \in FetchResponses : FetchResponds(r)

Spec == Init /\ [][Next]_vars

\* The server runs the handler of a request it has received.  Nothing obliges
\* the remote service to answer: requests.get is called without a timeout
\* (lines 42 and 88), so the handler waits for as long as the service is silent.
LiveSpec == Spec /\ WF_vars(Receive)

\* ------------------------------------------------------------ properties
Completed == pc = "done" /\ response.code = 200

MissingOrEmpty(field) == ~field.present \/ Len(field.val) = 0

RequestValid ==
    /\ pc # "idle"
    /\ ~MissingOrEmpty(post_data.username)
    /\ ~MissingOrEmpty(post_data.pattern)

\* The pattern occurs at least once anywhere in the text.
Occurs(pattern, text) == \E s \in 1..Len(text) : MatchAt(pattern, text, s)

Listed == 1..Len(gists.items)

FetchesOf(j) ==
    {c \in 1..Len(calls) : calls[c].kind = "fetch" /\ calls[c].pos = j}

\* The raw content of paste j's first file entry was fetched and the pattern
\* occurs in it.
MatchedAt(j) ==
    \E c \in FetchesOf(j) :
        /\ calls[c].state = "responded"
        /\ calls[c].url = gists.items[j].files[1].raw_url
        /\ Occurs(post_data.pattern.val, calls[c].text)

PasteUrl(j) == <<"https://gist.github.com", post_data.username.val, gists.items[j].id>>

StrictlyIncreasing(f) ==
    \A a, b \in DOMAIN f : a < b => f[a] < f[b]

\* C1: a raw-content fetch that fails excludes only its own paste: the search
\* goes on through every later paste and ends with a status-success result.
C1_FetchFailureIsolated ==
    (pc = "done" /\ \E c \in 1..Len(calls) :
                        calls[c].kind = "fetch" /\ calls[c].state = "raised")
    => /\ response.code = 200
       /\ response.result.status = "success"
       /\ i > Len(gists.items)

\* C2: a paste whose file mapping is empty is skipped: no fetch is issued for
\* it, the search does not fail at it, and the pastes after it are processed.
C2_EmptyFilesSkipped ==
    \A j \in Listed :
        (pc = "done" /\ i >= j /\ Len(gists.items[j].files) = 0)
        => /\ FetchesOf(j) = {}
           /\ ~(i = j /\ response.code = 500)

\* C3: a request whose pattern is no valid regular expression fails with the
\* pattern error before any remote call: no call is ever issued for it.
C3_InvalidPatternFailsFast ==
    (RequestValid /\ re_error(post_data.pattern.val))
    => /\ calls = <<>>
       /\ (pc = "done" => response.error = "re.error")

\* C4: when a search completes, matches is an order-preserving filter of the
\* listing: its entries are the URLs of exactly the list positions where a
\* match was found, in listing order, one entry per such position.
C4_MatchesOrderPreservingFilter ==
    Completed =>
        LET m == response.result.matches
        IN \E f \in [1..Len(m) -> Listed] :
              /\ StrictlyIncreasing(f)
              /\ \A k \in 1..Len(m) : m[k] = PasteUrl(f[k])
              /\ {f[k] : k \in 1..Len(m)} = {j \in Listed : MatchedAt(j)}

C4_Witness ==
    /\ Completed
    /\ Len(gists.items) = 2
    /\ Len(response.result.matches) = 2
    /\ response.result.matches[1] # response.result.matches[2]

\* C5: when a search completes, a listed paste's URL is in matches if and only
\* if the pattern occurs somewhere in the raw content fetched for the first
\* file entry of a paste with that URL.
C5_MatchIffPatternOccurs ==
    Completed =>
        \A j \in Listed :
            (PasteUrl(j) \in Range(response.result.matches))
            <=> (\E k \in Listed : PasteUrl(k) = PasteUrl(j) /\ MatchedAt(k))

C5_Witness ==
    /\ Completed
    /\ \E j \in Listed :
          /\ MatchedAt(j)
          /\ \A c \in FetchesOf(j) : ~MatchAt(post_data.pattern.val, calls[c].text, 1)
          /\ PasteUrl(j) \in Range(response.result.matches)
    /\ \E j \in Listed : PasteUrl(j) \notin Range(response.result.matches)

ExpectedInvalidFields ==
    (IF MissingOrEmpty(post_data.username) THEN <<"username">> ELSE <<>>)
    \o (IF MissingOrEmpty(post_data.pattern) THEN <<"pattern">> ELSE <<>>)

ListingFailed ==
    /\ calls # <<>>
    /\ calls[1].kind = "list"
    /\ \/ calls[1].state = "raised"
       \/ /\ calls[1].state = "responded"
          /\ \/ calls[1].status \notin 200..299
             \/ gists.kind # "array"

\* C7: when the listing call fails (network failure, non-2xx status, or a body
\* that is no JSON array of pastes) the request ends as a server-side failure:
\* never a success result, never the 400 answer, and no raw-content fetch.
C7_ListingFailureAborts ==
    (pc = "done" /\ ListingFailed)
    => /\ response.code = 500
       /\ \A c \in 1..Len(calls) : calls[c].kind # "fetch"

\* C8: when orchestration completes, the result has status success, echoes the
\* request's username and pattern, and carries the matches; when no listed
\* paste matched (an empty listing included) matches is empty.
C8_SuccessResult ==
    Completed =>
        /\ response.result.status = "success"
        /\ response.result.username = post_data.username.val
        /\ response.result.pattern = post_data.pattern.val
        /\ response.result.matches = matches
        /\ (\A j \in Listed : ~MatchedAt(j)) => response.result.matches = <<>>

C8_Witness ==
    /\ Completed
    /\ Len(gists.items) = 2
    /\ \A j \in Listed : FetchesOf(j) # {} /\ ~MatchedAt(j)
    /\ response.result.matches = <<>>
    /\ response.result.status = "success"

WithFiles == {j \in Listed : Len(gists.items[j].files) > 0}

\* C9: within a valid request the listing call is issued once and first; the
\* raw-content fetches follow in listing order, exactly one per listed paste
\* that has a file, each to the raw URL of that paste's first file entry.
C9_OneFetchPerPasteInOrder ==
    (pc = "done" /\ RequestValid)
    => /\ Len(calls) = 1 + Cardinality(WithFiles)
       /\ calls[1].kind = "list"
       /\ \A c \in 2..Len(calls) :
             /\ calls[c].kind = "fetch"
             /\ calls[c].pos \in WithFiles
             /\ calls[c].url = gists.items[calls[c].pos].files[1].raw_url
             /\ c > 2 => calls[c - 1].pos < calls[c].pos

\* C10: every outbound call is bounded by a timeout, so every search request
\* eventually finishes, even when the remote service never answers.
C10_EventuallyFinishes == <>(pc = "done")

====
